---- MODULE Spec2Model ----
(***************************************************************************)
(* schemato: a schema-migration runner for PostgreSQL (src/main.rs).       *)
(*                                                                         *)
(* Each invocation of the program is a process p.  An invocation parses    *)
(* its arguments, globs the schemata directory into a sorted catalog,      *)
(* connects to the server (connect_loop), makes sure the database and the  *)
(* schemato bookkeeping schema exist, loads the installed versions and     *)
(* applies every catalog version that is not installed, each in its own    *)
(* transaction.  The server's state (the database, the bookkeeping         *)
(* objects, the versions table and the effects of the migration bodies)    *)
(* is shared by all invocations.                                           *)
(*                                                                         *)
(* Two specifications share the actions:                                   *)
(*   Spec      runs the invocations one after another (a second run        *)
(*             starts once the first has ended);                           *)
(*   SpecRace  lets the invocations run concurrently, interleaved at the   *)
(*             granularity of one client/server exchange.                  *)
(***************************************************************************)
EXTENDS Integers, Sequences, FiniteSets, TLC

\* ------------------------------------------------------------------ bounds
\* Highest version number a file of the schemata directory carries.
MaxVer == 3
\* Highest version number in the directory of the concurrent specification.
MaxRaceVer == 2
\* Largest ordinary value of the --attempts argument that is enumerated.
MaxAttempts == 3
\* Number of statements in a migration file's SQL body.
BodyLen == 2

\* -------------------------------------------------------- program constants
\* attempts is a u32 (main.rs:279, 324).  A u32 is represented by the 32-bit
\* two's-complement integer with the same bits (the integers of the model
\* checker are 32 bits wide and signed): 0 .. 2^31 - 1 are themselves and
\* 2^32 - 1, the largest u32, is -1.
U32Max == -1
\* The attempts argument of the second connect_loop call (main.rs:203).
TargetAttempts == 1
\* Exit status of std::process::exit(1) (main.rs:170, 206, 265).
ExitFatal == 1
\* Exit status of a Rust panic (the unwrap() calls, main.rs:259, 369, 399, 422, 439).
ExitPanic == 101
\* Exit status of a process that returns from main (main.rs:261).
ExitOk == 0

\* The invocations: in Spec, the first and the second run.
Procs == {1, 2}

\* Number of invocations made one after another in Spec.
MaxRuns == 2

\* A count no well-behaved server reports for a database name: the `_` arm of
\* the match on the count (main.rs:189).
AnomalousCount == 2

\* ------------------------------------------------------ the version catalog
\* A file name DDDD.sql is the tuple of its four digits (main.rs:139).
FileName(v) == <<(v \div 1000) % 10, (v \div 100) % 10, (v \div 10) % 10, v % 10>>

FileNames == {FileName(v) : v \in 0..MaxVer}

RaceFileNames == {FileName(v) : v \in 1..MaxRaceVer}

\* nv[0].parse::<i32>() on the four digits before ".sql" (main.rs:143-144).
ParseVersion(f) == 1000 * f[1] + 100 * f[2] + 10 * f[3] + f[4]

Versions == {ParseVersion(f) : f \in FileNames}

\* String order of two file names of the same length: lexicographic on digits.
RECURSIVE StrLess(_, _)
StrLess(f, g) ==
    IF f = <<>> \/ g = <<>> THEN f = <<>> /\ g # <<>>
    ELSE IF Head(f) # Head(g) THEN Head(f) < Head(g)
    ELSE StrLess(Tail(f), Tail(g))

\* Ord for (i32, String): by version number, ties by file name (main.rs:152).
TupleLess(a, b) == a[1] < b[1] \/ (a[1] = b[1] /\ StrLess(a[2], b[2]))

\* Insert entry e into the sorted sequence s, keeping it sorted.
RECURSIVE SortedInsert(_, _)
SortedInsert(e, s) ==
    IF s = <<>> THEN <<e>>
    ELSE IF TupleLess(e, Head(s)) THEN <<e>> \o s
    ELSE <<Head(s)>> \o SortedInsert(e, Tail(s))

\* A mutant of Sort: the vector is left in enumeration order.
SortUnsorted(s) == s

\* schemata.sort() (main.rs:151-155).
RECURSIVE Sort(_)
Sort(s) == IF s = <<>> THEN <<>> ELSE SortedInsert(Head(s), Sort(Tail(s)))

\* All orders in which the entries of the set S can be enumerated.
RECURSIVE Enumerations(_)
Enumerations(S) ==
    IF S = {} THEN {<<>>}
    ELSE UNION {{<<f>> \o e : e \in Enumerations(S \ {f})} : f \in S}

\* The glob loop: push (n, f) for every entry enumerated Ok (main.rs:139-149).
Discovered(enum) == [i \in 1..Len(enum) |-> <<ParseVersion(enum[i]), enum[i]>>]

\* The version numbers of a catalog.
CatalogVersions(cat) == {cat[i][1] : i \in 1..Len(cat)}

\* ------------------------------------------------------------------- state
VARIABLES
    dir,    \* the schemata directory: the set of DDDD.sql file names in it
    proc,   \* proc[p]: the state of invocation p (its locals and position)
    db,     \* the server: databases, bookkeeping objects, versions table, effects
    hist    \* what has been committed so far, counted

vars == <<dir, proc, db, hist>>

\* No transaction open on the connection.
NoTx == [open |-> FALSE, objects |-> {}, rows |-> {}, effects |-> {}]

\* No connect_loop call in progress.  attempts is the parameter of the call;
\* budget is the --attempts argument of the invocation (main.rs:131), kept
\* from the start of main to the return of the second call.
NoLoop == [db |-> "", attempts |-> 0, budget |-> 0, hi |-> 0, attempt |-> 0,
           tries |-> 0, sleeps |-> 0, ret |-> ""]

\* An invocation before main starts; run counts the invocations so far and
\* prev is {0} when the one before ended with status 0 and {} otherwise.
\* shuffled: the directory was not enumerated in ascending order; migrated:
\* the database had every catalog version recorded when the run started;
\* has_schema: the query for the schemato schema returned a row; counted: the
\* count the query for the database returned; retry: the versions the
\* invocation before skipped with a warning.
Fresh(run, prev) ==
    [pc |-> "start", run |-> run, prev |-> prev, force |-> FALSE,
     schemata |-> <<>>, loop |-> NoLoop, installed |-> {}, idx |-> 0,
     tx |-> NoTx, applied |-> <<>>, warned |-> {}, wrote |-> {},
     shuffled |-> FALSE, migrated |-> FALSE, has_schema |-> FALSE,
     counted |-> {}, retry |-> {},
     fatal |-> "", status |-> {}]

\* An empty server: no database, no bookkeeping objects, no rows, no effects.
EmptyDb ==
    [databases |-> 0, objects |-> {}, versions |-> [v \in Versions |-> 0],
     effects |-> {}]

NoHist == [created |-> 0, schemas |-> 0, bodies |-> [v \in Versions |-> 0]]

\* The values of --attempts that are enumerated: 0, the ordinary small ones,
\* and the largest u32.
AttemptsInputs == (0..MaxAttempts) \cup {U32Max}

Ended(me) == me.pc \in {"done", "exited", "killed"}

Alive(me) == me.pc \notin {"start", "done", "exited", "killed"}

\* The versions with a row in schemato.versions.
Recorded(d) == {v \in Versions : d.versions[v] > 0}

\* The database has every version of the catalog recorded.
FullyMigrated(d, cat) ==
    /\ d.databases = 1
    /\ "schema" \in d.objects
    /\ CatalogVersions(cat) \subseteq Recorded(d)

Init ==
    /\ dir = FileNames
    /\ proc = [p \in Procs |-> Fresh(1, {})]
    /\ db = EmptyDb
    /\ hist = NoHist

InitRace ==
    /\ dir = RaceFileNames
    /\ proc = [p \in Procs |-> Fresh(1, {})]
    /\ db = EmptyDb
    /\ hist = NoHist

\* A mutant of Exit: the process ends with status 0.
ExitZero(me, code, why) ==
    [me EXCEPT !.pc = "exited", !.status = {ExitOk}, !.fatal = why, !.tx = NoTx]

\* std::process::exit(code) or a panic: the process ends, the server ends its
\* session and rolls back whatever transaction was open on it.
Exit(me, code, why) ==
    [me EXCEPT !.pc = "exited", !.status = {code}, !.fatal = why, !.tx = NoTx]

\* A mutant of Fatal: with force the error is logged as a warning and the
\* process goes on.
FatalUnlessForce(me, why) ==
    IF me.force THEN [me EXCEPT !.warned = @ \cup {<<why, 0>>}]
    ELSE Exit(me, ExitFatal, why)

\* exit_logging_error, and the error! followed by exit(1) after connect_loop
\* (main.rs:168-171, 204-207, 263-266): fatal whatever force is.
Fatal(me, why) == Exit(me, ExitFatal, why)

\* A failed unwrap(): the panic ends the process with status 101.
Panic(me, why) == Exit(me, ExitPanic, why)

\* main up to the first connect_loop call: parse the arguments, glob the
\* directory (an entry may fail to enumerate: warned and skipped), sort.
\* attempts is the argument of the first connect_loop call (main.rs:167).
Main(p, force, attempts, enum) ==
    /\ proc[p].pc = "start"
    /\ proc' = [proc EXCEPT ![p] =
            [@ EXCEPT !.pc = "connect",
                      !.force = force,
                      !.schemata = Sort(Discovered(enum)),
                      !.shuffled = \E i \in 1..Len(enum) - 1 :
                                      ParseVersion(enum[i]) > ParseVersion(enum[i + 1]),
                      !.migrated = FullyMigrated(db, Discovered(enum)),
                      !.loop = [NoLoop EXCEPT !.db = "admin", !.attempts = attempts,
                                              !.budget = attempts]]]
    /\ UNCHANGED <<dir, db, hist>>

\* ------------------------------------------------------------ connect_loop
\* A mutant of RangeEnd: the range 1..attempts, one attempt short.
RangeEndShort(attempts) == attempts

\* a < b on u32 values.
ULess(a, b) == IF (a < 0) = (b < 0) THEN a < b ELSE b < 0

\* The end of the range 1..attempts + 1, in u32 arithmetic as a build without
\* overflow checks computes it (main.rs:327): the sum wraps from 2^32 - 1 to 0,
\* which in the representation is -1 + 1 = 0.
RangeEnd(attempts) == attempts + 1

\* attempts + 1 overflows a u32: a build with overflow checks panics there.
Overflows(attempts) == attempts = U32Max

\* A mutant of SleepsAfter: sleep after every failed attempt, the last too.
SleepsAlways(attempt, attempts) == TRUE

\* `if attempt != attempts` (main.rs:335).
SleepsAfter(attempt, attempts) == attempt # attempts

\* Where main goes on once connect_loop has returned a connection.
AfterConnect(target) == IF target = "admin" THEN "query_database" ELSE "query_schema"

\* The server can accept a connection to the named database only if it exists.
CanAccept(target) == target = "admin" \/ db.databases >= 1

\* connect_loop is entered: the range is evaluated; an empty range returns
\* None at once, which main turns into exit(1) (main.rs:167-171, 203-207, 327).
\* checked: the build checks arithmetic overflow (a debug build) and panics
\* where attempts + 1 overflows; otherwise the sum wraps.
ConnectLoop(p, checked) ==
    LET me == proc[p]
        hi == RangeEnd(me.loop.attempts)
    IN
    /\ me.pc = "connect"
    /\ proc' = [proc EXCEPT ![p] =
          IF checked /\ Overflows(me.loop.attempts)
          THEN Panic(me, "overflow")
          ELSE IF ULess(1, hi)
          THEN [me EXCEPT !.pc = "connecting", !.loop.hi = hi, !.loop.attempt = 1]
          ELSE Fatal([me EXCEPT !.loop.hi = hi, !.loop.ret = "None"], "connect")]
    /\ UNCHANGED <<dir, db, hist>>

\* One iteration of the loop: connect_postgres succeeds and the connection is
\* returned, or it fails, the failure is logged, the loop sleeps unless this
\* was attempt number `attempts`, and goes on or returns None (main.rs:327-341).
ConnectAttempt(p, ok) ==
    LET me == proc[p]
        l == me.loop
        tried == [l EXCEPT !.tries = @ + 1]
        slept == IF SleepsAfter(l.attempt, l.attempts)
                 THEN [tried EXCEPT !.sleeps = @ + 1] ELSE tried
    IN
    /\ me.pc = "connecting"
    /\ ok => CanAccept(l.db)
    /\ proc' = [proc EXCEPT ![p] =
          IF ok
          THEN [me EXCEPT !.pc = AfterConnect(l.db), !.loop = [tried EXCEPT !.ret = "Some"]]
          ELSE IF ULess(l.attempt + 1, l.hi)
          THEN [me EXCEPT !.loop = [slept EXCEPT !.attempt = @ + 1]]
          ELSE Fatal([me EXCEPT !.loop = [slept EXCEPT !.ret = "None"]], "connect")]
    /\ UNCHANGED <<dir, db, hist>>

\* --------------------------------------------------------------- bootstrap
\* A mutant of ExistenceDecision: every count but 0 is taken for "exists".
ExistenceDecisionLenient(c) == IF c = 0 THEN "create" ELSE "exists"

\* A mutant of ExistenceDecision: the database is created whatever the count.
ExistenceDecisionAlwaysCreate(c) == "create"

\* The match on the count of databases of that name (main.rs:182-192).
ExistenceDecision(c) ==
    IF c = 0 THEN "create" ELSE IF c = 1 THEN "exists" ELSE "fatal"

\* The call of connect_loop for the target database, with 1 attempt
\* (main.rs:202-203).
Reconnect(me) ==
    [me EXCEPT !.pc = "connect",
               !.loop = [NoLoop EXCEPT !.db = "named", !.attempts = TargetAttempts,
                                       !.budget = me.loop.budget]]

\* The query for the database on the administrative connection and the match
\* on its result (main.rs:179-200).  ok = FALSE: the query fails.  counted
\* holds the count the query returned, if it returned one.
QueryDatabase(p, ok, c) ==
    LET me == [proc[p] EXCEPT !.loop = [NoLoop EXCEPT !.budget = proc[p].loop.budget],
                              !.counted = IF ok THEN {c} ELSE {}] IN
    /\ proc[p].pc = "query_database"
    /\ proc' = [proc EXCEPT ![p] =
          IF ~ok THEN Fatal(me, "query_database")
          ELSE CASE ExistenceDecision(c) = "create" -> [me EXCEPT !.pc = "create_database"]
                 [] ExistenceDecision(c) = "exists" -> Reconnect(me)
                 [] OTHER -> Fatal(me, "database_count")]
    /\ UNCHANGED <<dir, db, hist>>

\* create_database: CREATE DATABASE succeeds only if there is no database of
\* that name; any failure is fatal (main.rs:360-365).
CreateDatabase(p, ok) ==
    LET me == [proc[p] EXCEPT !.wrote = @ \cup {"create_database"}] IN
    /\ proc[p].pc = "create_database"
    /\ IF db.databases >= 1
       THEN /\ proc' = [proc EXCEPT ![p] = Fatal(me, "database_exists")]
            /\ UNCHANGED <<db, hist>>
       ELSE IF ok
       THEN /\ proc' = [proc EXCEPT ![p] = Reconnect(me)]
            /\ db' = [db EXCEPT !.databases = @ + 1]
            /\ hist' = [hist EXCEPT !.created = @ + 1]
       ELSE /\ proc' = [proc EXCEPT ![p] = Fatal(me, "create_database")]
            /\ UNCHANGED <<db, hist>>
    /\ UNCHANGED dir

\* A mutant of SchemaDecision: create_schema is called whatever the query
\* returned.
SchemaDecisionAlwaysCreate(rows) == "create_schema"

\* `if rows.len() < 1 { create_schema(..) }` (main.rs:218-220): where main
\* goes on for a result of that many rows.
SchemaDecision(rows) == IF rows < 1 THEN "create_schema" ELSE "load"

\* The rows of the query for the schemato schema: one if it exists.
SchemaRows(d) == IF "schema" \in d.objects THEN 1 ELSE 0

\* The query for the schemato schema on the target connection (main.rs:216-228).
QuerySchema(p, ok) ==
    LET me == [proc[p] EXCEPT !.loop = NoLoop] IN
    /\ proc[p].pc = "query_schema"
    /\ proc' = [proc EXCEPT ![p] =
          IF ~ok THEN Fatal(me, "query_schema")
          ELSE [me EXCEPT !.pc = SchemaDecision(SchemaRows(db)),
                          !.has_schema = SchemaRows(db) >= 1]]
    /\ UNCHANGED <<dir, db, hist>>

\* The statements of create_schema's batch, in order (main.rs:370-392).
SchemaStmts == <<"schema", "table", "function", "trigger", "row0">>

\* The objects the first k statements of the batch create.
SchemaObjects(k) == {SchemaStmts[i] : i \in 1..k} \ {"row0"}

\* Some other session holds an uncommitted CREATE SCHEMA schemato.
SchemaPending(p) == \E q \in Procs \ {p} : "schema" \in proc[q].tx.objects

\* A mutant of BaselineRows: no baseline row is seeded.
BaselineRowsNone == {}

\* INSERT INTO schemato.versions (version) VALUES (0), the last statement of
\* the batch (main.rs:391).
BaselineRows == {0}

\* The transaction of create_schema after the first k statements of the batch.
SchemaTx(k) ==
    [open |-> TRUE, objects |-> SchemaObjects(k),
     rows |-> IF k = Len(SchemaStmts) THEN BaselineRows ELSE {}, effects |-> {}]

\* A mutant of Committed: the objects are committed, the rows are not.
CommittedObjectsOnly(d, tx) == [d EXCEPT !.objects = @ \cup tx.objects]

\* What a committed transaction leaves in the database.
Committed(d, tx) ==
    [d EXCEPT !.objects = @ \cup tx.objects,
              !.versions = [v \in Versions |-> IF v \in tx.rows THEN @[v] + 1 ELSE @[v]],
              !.effects = @ \cup tx.effects]

\* A mutant of RolledBack: what the failed batch did before it failed stays.
RolledBackPartial(d, tx) == Committed(d, tx)

\* A mutant of RolledBack: the version of the failed body is registered.
RolledBackRecorded(d, tx) ==
    [d EXCEPT !.versions = [v \in Versions |->
                               IF \E e \in tx.effects : e[1] = v THEN 1 ELSE @[v]]]

\* A mutant of RolledBack: the rollback takes the rows and the effects of
\* the versions committed before with it.
RolledBackAll(d, tx) ==
    [d EXCEPT !.versions = [v \in Versions |-> IF v = 0 THEN @[v] ELSE 0],
              !.effects = {}]

\* The database after a transaction is rolled back (set_rollback and the drop
\* of the transaction, main.rs:432-433; the end of the session of a process
\* that exits, main.rs:394): nothing of it is left.
RolledBack(d, tx) == d

\* create_schema up to the commit: begin a transaction and run the batch.
\* fail = 0: every statement succeeds; fail = k: statement k fails after the
\* k - 1 before it ran, which is fatal; fail = -1: the transaction cannot be
\* begun and unwrap() panics (main.rs:367-398).  CREATE SCHEMA waits for a
\* concurrent uncommitted one and fails if the schema exists.
CreateSchema(p, fail) ==
    LET me == [proc[p] EXCEPT !.wrote = @ \cup {"create_schema"}] IN
    /\ proc[p].pc = "create_schema"
    /\ ~SchemaPending(p)
    /\ IF fail = -1
       THEN /\ proc' = [proc EXCEPT ![p] = Panic(me, "begin")]
            /\ UNCHANGED db
       ELSE IF "schema" \in db.objects
       THEN /\ proc' = [proc EXCEPT ![p] = Fatal(me, "schema_exists")]
            /\ UNCHANGED db
       ELSE IF fail > 0
       THEN /\ proc' = [proc EXCEPT ![p] = Fatal(me, "create_schema")]
            /\ db' = RolledBack(db, SchemaTx(fail - 1))
       ELSE /\ proc' = [proc EXCEPT ![p] =
                  [me EXCEPT !.pc = "commit_schema",
                             !.tx = SchemaTx(Len(SchemaStmts))]]
            /\ UNCHANGED db
    /\ UNCHANGED <<dir, hist>>

\* t.commit().unwrap() at the end of create_schema (main.rs:399).
CommitSchema(p, ok) ==
    LET me == proc[p] IN
    /\ me.pc = "commit_schema"
    /\ IF ok
       THEN /\ proc' = [proc EXCEPT ![p] = [me EXCEPT !.pc = "load", !.tx = NoTx]]
            /\ db' = Committed(db, me.tx)
            /\ hist' = [hist EXCEPT !.schemas = @ + 1]
       ELSE /\ proc' = [proc EXCEPT ![p] = Panic(me, "commit")]
            /\ UNCHANGED <<db, hist>>
    /\ UNCHANGED dir

\* ------------------------------------------------------------------ ledger
\* The HashMap built from the rows of schemato.versions (main.rs:238-249).
\* The query fails if the table is not there.
LoadInstalled(p, ok) ==
    LET me == proc[p] IN
    /\ me.pc = "load"
    /\ proc' = [proc EXCEPT ![p] =
          IF ok /\ "table" \in db.objects
          THEN [me EXCEPT !.pc = "loop", !.installed = Recorded(db), !.idx = 1]
          ELSE Fatal(me, "load")]
    /\ UNCHANGED <<dir, db, hist>>

\* ----------------------------------------------------------------- applier
\* The catalog entry the loop of main is at.
Current(me) == me.schemata[me.idx]

\* A mutant of IsInstalled: nothing counts as installed.
IsInstalledNever(installed, v) == FALSE

\* installed.contains_key(&ver.0) (main.rs:252).
IsInstalled(installed, v) == v \in installed

\* The loop of main passes over an installed version (main.rs:252-253).
SkipInstalled(p) ==
    LET me == proc[p] IN
    /\ me.pc = "loop"
    /\ me.idx <= Len(me.schemata)
    /\ IsInstalled(me.installed, Current(me)[1])
    /\ proc' = [proc EXCEPT ![p] = [me EXCEPT !.idx = @ + 1]]
    /\ UNCHANGED <<dir, db, hist>>

\* What the loop does with a version apply() returned from without recording
\* it: a warning, and on to the next entry.
Skipped(me, kind) ==
    [me EXCEPT !.pc = "loop", !.idx = @ + 1, !.tx = NoTx,
               !.warned = @ \cup {<<kind, Current(me)[1]>>}]

\* A mutant of OnFailure: a failure is skipped with a warning whatever force is.
OnFailureAlwaysSkip(me, kind) == Skipped(me, kind)

\* The force policy of apply (main.rs:406-414, 430-436): with force the
\* version is skipped with a warning, without it the process exits.
OnFailure(me, kind) ==
    IF me.force THEN Skipped(me, kind) ELSE Fatal(me, kind)

\* apply is called on a version that is not installed and reads the file
\* (main.rs:255, 403-415).  ok = FALSE: the file cannot be read.
ApplyRead(p, ok) ==
    LET me == [proc[p] EXCEPT !.applied = Append(@, Current(proc[p])[1])] IN
    /\ proc[p].pc = "loop"
    /\ proc[p].idx <= Len(proc[p].schemata)
    /\ ~IsInstalled(proc[p].installed, Current(proc[p])[1])
    /\ proc' = [proc EXCEPT ![p] =
          IF ok THEN [me EXCEPT !.pc = "execute"] ELSE OnFailure(me, "read")]
    /\ UNCHANGED <<dir, db, hist>>

\* The effects of the first k statements of the body of version v.
Executed(v, k) == {<<v, j>> : j \in 1..k}

\* apply begins a transaction and executes the body as one batch
\* (main.rs:422-437).  fail = 0: the batch succeeds; fail = k: statement k
\* fails after the k - 1 before it ran; fail = -1: the transaction cannot be
\* begun and unwrap() panics.
ApplyExecute(p, fail) ==
    LET me == [proc[p] EXCEPT !.wrote = @ \cup {"body"}]
        v == Current(me)[1]
        done == IF fail = 0 THEN BodyLen ELSE fail - 1
        tx == [open |-> TRUE, objects |-> {}, rows |-> {}, effects |-> Executed(v, done)]
    IN
    /\ proc[p].pc = "execute"
    /\ IF fail = -1
       THEN /\ proc' = [proc EXCEPT ![p] = Panic(me, "begin")]
            /\ UNCHANGED db
       ELSE IF fail = 0
       THEN /\ proc' = [proc EXCEPT ![p] = [me EXCEPT !.pc = "register", !.tx = tx]]
            /\ UNCHANGED db
       ELSE /\ proc' = [proc EXCEPT ![p] = OnFailure(me, "apply")]
            /\ db' = RolledBack(db, tx)
    /\ UNCHANGED <<dir, hist>>

\* Some other session holds an uncommitted row for version v.
RowPending(p, v) == \E q \in Procs \ {p} : v \in proc[q].tx.rows

\* A mutant of RegisterFails: a failed insert is ignored.
RegisterFailsNever(d, v, ok) == FALSE

\* The INSERT of the version row fails: the statement itself fails, or the
\* primary key of schemato.versions rejects a second row for the version
\* (main.rs:374, 416-427).
RegisterFails(d, v, ok) == ~ok \/ d.versions[v] > 0

\* The version is registered in the transaction of its body; a failure is
\* fatal whatever force is (main.rs:425-427).  The INSERT waits for a
\* concurrent uncommitted row with the same key.
ApplyRegister(p, ok) ==
    LET me == [proc[p] EXCEPT !.wrote = @ \cup {"insert"}]
        v == Current(me)[1]
    IN
    /\ proc[p].pc = "register"
    /\ ~RowPending(p, v)
    /\ proc' = [proc EXCEPT ![p] =
          IF RegisterFails(db, v, ok)
          THEN Fatal(me, IF db.versions[v] > 0 THEN "duplicate_version" ELSE "register")
          ELSE [me EXCEPT !.pc = "commit", !.tx.rows = @ \cup {v}]]
    /\ UNCHANGED <<dir, db, hist>>

\* t.commit().unwrap() at the end of apply (main.rs:439).
ApplyCommit(p, ok) ==
    LET me == proc[p]
        v == Current(me)[1]
    IN
    /\ me.pc = "commit"
    /\ IF ok
       THEN /\ proc' = [proc EXCEPT ![p] =
                  [me EXCEPT !.pc = "loop", !.idx = @ + 1, !.tx = NoTx]]
            /\ db' = Committed(db, me.tx)
            /\ hist' = [hist EXCEPT !.bodies[v] = @ + 1]
       ELSE /\ proc' = [proc EXCEPT ![p] = Panic(me, "commit")]
            /\ UNCHANGED <<db, hist>>
    /\ UNCHANGED dir

\* The loop is over: conn.finish().unwrap() and main returns (main.rs:259-261).
Finish(p, ok) ==
    LET me == proc[p] IN
    /\ me.pc = "loop"
    /\ me.idx > Len(me.schemata)
    /\ proc' = [proc EXCEPT ![p] =
          IF ok THEN [me EXCEPT !.pc = "done", !.status = {ExitOk}]
          ELSE Panic(me, "finish")]
    /\ UNCHANGED <<dir, db, hist>>

\* The process holds a transaction open: it is inside create_schema or apply.
InTransaction(me) == me.pc \in {"commit_schema", "execute", "register", "commit"}

\* The process dies (a signal, a crash of its host) inside create_schema or
\* apply: it has no exit status of its own and the server rolls its open
\* transaction back.  (A death anywhere else leaves the server as it is, as
\* does a process that takes no further step.)
Kill(p) ==
    /\ InTransaction(proc[p])
    /\ proc' = [proc EXCEPT ![p] = [@ EXCEPT !.pc = "killed", !.tx = NoTx]]
    /\ UNCHANGED <<dir, db, hist>>

\* The program is invoked again once the invocation before it has ended.
\* retry holds the versions the invocation before skipped with a warning.
NewRun(p) ==
    /\ Ended(proc[p])
    /\ proc[p].run < MaxRuns
    /\ proc' = [proc EXCEPT ![p] =
          [Fresh(@.run + 1, @.status \cap {ExitOk}) EXCEPT
              !.retry = {w[2] : w \in proc[p].warned}]]
    /\ UNCHANGED <<dir, db, hist>>

\* ---------------------------------------------------------- specifications
\* The outcomes of a batch: -1 no transaction, 0 success, k statement k fails.
SchemaOutcomes == -1..Len(SchemaStmts)

BodyOutcomes == -1..BodyLen

\* The counts the server may report for the database name.
Counts == {db.databases, AnomalousCount}

Step(p) ==
    \/ \E checked \in BOOLEAN : ConnectLoop(p, checked)
    \/ \E ok \in BOOLEAN : ConnectAttempt(p, ok)
    \/ \E ok \in BOOLEAN, c \in Counts : QueryDatabase(p, ok, c)
    \/ \E ok \in BOOLEAN : CreateDatabase(p, ok)
    \/ \E ok \in BOOLEAN : QuerySchema(p, ok)
    \/ \E fail \in SchemaOutcomes : CreateSchema(p, fail)
    \/ \E ok \in BOOLEAN : CommitSchema(p, ok)
    \/ \E ok \in BOOLEAN : LoadInstalled(p, ok)
    \/ SkipInstalled(p)
    \/ \E ok \in BOOLEAN : ApplyRead(p, ok)
    \/ \E fail \in BodyOutcomes : ApplyExecute(p, fail)
    \/ \E ok \in BOOLEAN : ApplyRegister(p, ok)
    \/ \E ok \in BOOLEAN : ApplyCommit(p, ok)
    \/ \E ok \in BOOLEAN : Finish(p, ok)
    \/ Kill(p)

\* The --attempts arguments given to invocation number run: every one of
\* AttemptsInputs to the first, one attempt to those after it.  connect_loop
\* reads nothing an earlier invocation has left behind.
AttemptsOf(run) == IF run = 1 THEN AttemptsInputs ELSE {1}

\* Invocations one after another: a single process, invoked again and again.
Next ==
    \/ /\ proc[1].pc = "start"
       /\ \E S \in SUBSET dir : \E enum \in Enumerations(S) :
             \E force \in BOOLEAN, attempts \in AttemptsOf(proc[1].run) :
                Main(1, force, attempts, enum)
    \/ Step(1)
    \/ NewRun(1)

Spec == Init /\ [][Next]_vars

\* Concurrent invocations: both processes run, each with one attempt.
NextRace ==
    \E p \in Procs :
       \/ /\ proc[p].pc = "start"
          /\ \E enum \in Enumerations(dir) : \E force \in BOOLEAN :
                Main(p, force, 1, enum)
       \/ Step(p)

SpecRace == InitRace /\ [][NextRace]_vars

\* ------------------------------------------------------------------ claims
\* The set of the elements of a sequence.
Range(s) == {s[i] : i \in 1..Len(s)}

\* The effects of the body of version v that are visible in the database.
Visible(v) == {e \in db.effects : e[1] = v}

\* The process has its administrative connection and has not ended: it is in
\* the sequence database-existence check / schema bootstrap / ledger load /
\* migration application.
InSequence(me) ==
    \/ me.pc \in {"query_database", "create_database", "query_schema",
                  "create_schema", "commit_schema", "load", "loop", "execute",
                  "register", "commit"}
    \/ me.pc \in {"connect", "connecting"} /\ me.loop.db = "named"

\* C1 (as claimed): mutual exclusion across invocations: at no time are two
\* concurrent invocations both inside the sequence existence check /
\* bootstrap / ledger load / migration application.  The code takes no
\* advisory lock (connect_postgres only connects), so this is violated.
C1_MutualExclusion ==
    \A p \in Procs : \A q \in Procs \ {p} :
       ~(InSequence(proc[p]) /\ InSequence(proc[q]))

\* The fatal errors that only the work of another invocation can cause.
Conflicts == {"database_exists", "schema_exists", "duplicate_version"}

\* C2 (as claimed): two racing invocations with the same catalog serialize:
\* every body is committed at most once with at most one ledger row, the
\* database and the bookkeeping schema are created at most once, and neither
\* invocation ends fatally because of the other's work.  Without the lock the
\* last part is violated: the loser of a race exits on a conflict.
C2_RacersSerialize ==
    /\ hist.created <= 1
    /\ hist.schemas <= 1
    /\ \A v \in Versions : hist.bodies[v] <= 1 /\ db.versions[v] <= 1
    /\ \A p \in Procs : proc[p].fatal \notin Conflicts

\* C3 (as claimed): in every state, for every catalog version v, the effects
\* of v's body are visible if and only if the ledger has a row for v.
\* Violated for the catalog entry 0000.sql: the baseline row 0 is there and
\* that body never runs.
C3_EffectsIffRow ==
    \A p \in Procs : \A v \in CatalogVersions(proc[p].schemata) :
       (Visible(v) # {}) <=> (db.versions[v] > 0)

\* C3 (amended): in every state of the database, whatever failed and wherever
\* a process died, every version other than the baseline 0 has either a ledger
\* row and all the effects of its body, or no row and no effect at all; the
\* baseline has no effect.
C3_PerVersionAtomicity ==
    /\ Visible(0) = {}
    /\ \A v \in Versions \ {0} :
          Visible(v) = IF db.versions[v] > 0 THEN Executed(v, BodyLen) ELSE {}

\* C3 witness: a body failed under force and left nothing (no row, no effect)
\* while a version applied before it is recorded with its effects, and a
\* catalog entry 0000.sql is there.
C3_Witness ==
    \E p \in Procs : \E v, w \in Versions \ {0} :
       /\ <<"apply", v>> \in proc[p].warned
       /\ db.versions[v] = 0 /\ Visible(v) = {}
       /\ w \in Range(proc[p].applied) /\ db.versions[w] = 1
       /\ Visible(w) = Executed(w, BodyLen)
       /\ 0 \in CatalogVersions(proc[p].schemata)

\* C4: within one run, the versions on which apply is invoked are strictly
\* ascending, whatever the order in which the directory was enumerated (no
\* reordering, no version attempted twice); the catalog itself is ascending.
C4_AscendingOrder ==
    \A p \in Procs :
       /\ \A i, j \in 1..Len(proc[p].applied) :
             i < j => proc[p].applied[i] < proc[p].applied[j]
       /\ \A i, j \in 1..Len(proc[p].schemata) :
             i < j => TupleLess(proc[p].schemata[i], proc[p].schemata[j])

\* C4 witness: a directory enumerated out of order, and a run that has
\* invoked apply on three versions.
C4_Witness ==
    \E p \in Procs : proc[p].shuffled /\ Len(proc[p].applied) >= 3

\* C5: in a run that reaches completion, the versions on which apply was
\* invoked are exactly the catalog versions that are not in the ledger as
\* loaded; and at no point is apply invoked on a version of the loaded ledger.
C5_SkipOnInstalled ==
    \A p \in Procs :
       /\ Range(proc[p].applied) \cap proc[p].installed = {}
       /\ proc[p].pc = "done" =>
             Range(proc[p].applied) =
                CatalogVersions(proc[p].schemata) \ proc[p].installed

\* C5 witness: catalog {1,2,3}, loaded ledger {0,1,3}: only 2 was applied.
C5_Witness ==
    \E p \in Procs :
       /\ proc[p].pc = "done"
       /\ CatalogVersions(proc[p].schemata) = {1, 2, 3}
       /\ proc[p].installed = {0, 1, 3}
       /\ proc[p].applied = <<2>>
       /\ db.versions[2] = 1

\* The errors of the statements that write: creating the database or the
\* bookkeeping schema, reading and executing a body, registering a version,
\* committing.
WriteErrors ==
    {"create_database", "database_exists", "begin", "create_schema",
     "schema_exists", "commit", "read", "apply", "register", "duplicate_version"}

Passed(me) == {me.schemata[i][1] : i \in 1..(IF me.idx = 0 THEN 0 ELSE me.idx - 1)}

\* C7: force semantics.  When the body of a pending version fails: without
\* force the run ends with a non-zero status at that version, which is left
\* unrecorded, and no later version is applied; with force the version is
\* left unrecorded with nothing of its transaction visible, and the run goes
\* on: every pending catalog version the loop has passed has had apply
\* invoked on it, so a completed run has applied every later pending version.
C7_ForceSemantics ==
    \A p \in Procs :
       LET me == proc[p] IN
       /\ me.fatal = "apply" =>
             /\ ~me.force
             /\ me.pc = "exited" /\ me.status = {ExitFatal}
             /\ me.applied # <<>>
             /\ me.applied[Len(me.applied)] = Current(me)[1]
             /\ db.versions[Current(me)[1]] = 0
             /\ Visible(Current(me)[1]) = {}
       /\ \A v \in Versions : <<"apply", v>> \in me.warned =>
             /\ me.force
             /\ me.fatal # "apply"
             /\ db.versions[v] = 0
             /\ Visible(v) = {}
             /\ ~me.tx.open \/ Current(me)[1] # v
       /\ me.pc \in {"loop", "done"} => Passed(me) \ me.installed \subseteq Range(me.applied)
       /\ me.pc = "done" => me.idx > Len(me.schemata)

\* C7 witness: a completed run with force in which the body of version 1
\* failed and versions 2 and 3 were applied and recorded after it.
C7_Witness ==
    \E p \in Procs :
       /\ proc[p].force /\ proc[p].pc = "done"
       /\ <<"apply", 1>> \in proc[p].warned
       /\ proc[p].applied = <<1, 2, 3>>
       /\ db.versions[1] = 0 /\ db.versions[2] = 1 /\ db.versions[3] = 1

\* C8 (as claimed): for a budget of N >= 1 attempts, connect_loop returns the
\* exhausted signal only after exactly N attempts and N - 1 sleeps, and
\* returns a connection on some attempt 1..N, sleeping once per failed
\* attempt before it.  Violated for N = 2^32 - 1 (U32Max), where attempts + 1
\* overflows: the range is empty and no attempt is made, or the build panics.
C8_RetryBound ==
    \A p \in Procs :
       LET l == proc[p].loop IN
       /\ (l.ret = "None" /\ l.attempts # 0) =>
             l.tries = l.attempts /\ l.sleeps = l.attempts - 1
       /\ l.ret = "Some" =>
             /\ l.tries = l.attempt /\ l.sleeps = l.tries - 1
             /\ ~ULess(l.attempts, l.tries)
       /\ proc[p].fatal # "overflow"

\* C8 (within range): for every budget other than 2^32 - 1 the loop does as
\* C8 says: exhausted after exactly N attempts and N - 1 sleeps, a connection
\* on the first accepted attempt, and no panic.
C8_RetryBoundInRange ==
    \A p \in Procs :
       LET l == proc[p].loop IN
       l.attempts # U32Max =>
          /\ (l.ret = "None" /\ l.attempts # 0) =>
                l.tries = l.attempts /\ l.sleeps = l.attempts - 1
          /\ l.ret = "Some" =>
                /\ l.tries = l.attempt /\ l.sleeps = l.tries - 1
                /\ ~ULess(l.attempts, l.tries)
          /\ proc[p].fatal # "overflow"

\* The failures that the force policy downgrades to a warning.
Forceable == {"read", "apply"}

\* C9: scope of the force policy: the only failures a run continues past are
\* a failed read of a migration file and a failed body, and only with force;
\* every other failure ends the run with a non-zero status whatever force is.
C9_ForceScope ==
    \A p \in Procs :
       LET me == proc[p] IN
       /\ \A w \in me.warned : w[1] \in Forceable
       /\ me.warned # {} => me.force
       /\ me.fatal \in Forceable => ~me.force
       /\ me.fatal # "" =>
             me.pc = "exited" /\ me.status \in {{ExitFatal}, {ExitPanic}}

\* C9 witness: a run with force that went on past a failed body and then
\* ended with a non-zero status because the ledger row could not be inserted.
C9_Witness ==
    \E p \in Procs :
       /\ proc[p].force
       /\ \E v \in Versions : <<"apply", v>> \in proc[p].warned
       /\ proc[p].fatal = "register"
       /\ proc[p].status = {ExitFatal}

\* C10 (as claimed): a run ends with status 0 only when every catalog version
\* is recorded in the ledger, with force off and with force on.  Violated
\* with force on: a skipped version is unrecorded and the run ends with 0.
C10_ZeroOnlyIfAllRecorded ==
    \A p \in Procs :
       proc[p].status = {ExitOk} =>
          CatalogVersions(proc[p].schemata) \subseteq Recorded(db)

\* C10 (amended): a run ends with status 0 only when it met no fatal
\* condition and every catalog version is recorded in the ledger or, with
\* force on, was skipped with a warning; every fatal condition ends the run
\* with a non-zero status, with force off and with force on.
C10_ExitStatus ==
    \A p \in Procs :
       LET me == proc[p] IN
       /\ me.status = {ExitOk} =>
             /\ me.pc = "done" /\ me.fatal = ""
             /\ \A v \in CatalogVersions(me.schemata) :
                   \/ db.versions[v] > 0
                   \/ me.force /\ \E kind \in Forceable : <<kind, v>> \in me.warned
       /\ me.fatal # "" => me.status # {} /\ ExitOk \notin me.status
       /\ me.pc = "exited" => me.fatal # ""

\* C10 witness: a run with force off over three pending versions has ended
\* with status 0 and all of them are recorded.
C10_Witness ==
    \E p \in Procs :
       /\ ~proc[p].force /\ proc[p].status = {ExitOk}
       /\ proc[p].applied = <<1, 2, 3>>
       /\ {1, 2, 3} \subseteq Recorded(db)

\* C11: bootstrap idempotence: a run whose query finds the bookkeeping schema
\* calls create_schema at no point (no schema, table or trigger creation, no
\* second baseline row), and wherever the schema exists the ledger holds
\* exactly one row for version 0, however many runs there were.
C11_BootstrapIdempotence ==
    /\ \A p \in Procs :
          proc[p].has_schema =>
             /\ "create_schema" \notin proc[p].wrote
             /\ proc[p].pc \notin {"create_schema", "commit_schema"}
             /\ proc[p].fatal \notin {"create_schema", "schema_exists"}
             /\ db.versions[0] = 1
    /\ hist.schemas <= 1
    /\ "schema" \in db.objects => db.versions[0] = 1

\* C11 witness: a second run found the schema the first run had created and
\* has completed; the ledger has its one baseline row.
C11_Witness ==
    \E p \in Procs :
       /\ proc[p].run = 2 /\ proc[p].has_schema
       /\ proc[p].pc = "done"
       /\ hist.schemas = 1 /\ db.versions[0] = 1

\* C12: bootstrap atomicity: in every state of the database, also after a
\* failure or the death of the process inside create_schema, the schema, the
\* versions table, its trigger function and trigger and the baseline row are
\* there all together or not at all: the schema exists if and only if the
\* table exists and holds the row for version 0.
C12_BootstrapAtomicity ==
    /\ ("schema" \in db.objects) <=> ("table" \in db.objects /\ db.versions[0] >= 1)
    /\ db.objects \in {{}, SchemaObjects(Len(SchemaStmts))}
    /\ db.objects = {} => db.versions[0] = 0

\* C12 witness: a process died inside create_schema, after its batch and
\* before its commit, and the database has nothing of the bookkeeping schema.
C12_Witness ==
    \E p \in Procs :
       /\ proc[p].pc = "killed"
       /\ "create_schema" \in proc[p].wrote /\ "body" \notin proc[p].wrote
       /\ db.objects = {} /\ db.versions[0] = 0

\* C13 (as claimed): the connection to the target database is attempted up to
\* the configured number of times: a run is given up for want of that
\* connection only after as many attempts as its budget.  Violated: the second
\* connect_loop call is passed 1 (main.rs:203), so one refusal ends a run
\* whose budget is 2 or more.
C13_TargetBudget ==
    \A p \in Procs :
       LET l == proc[p].loop IN
       (l.db = "named" /\ l.ret = "None") => ~ULess(l.tries, l.budget)

\* C14 (as claimed): for every value of the attempts parameter, 0 and 2^32 - 1
\* included, connect_loop makes at least one connection attempt before it
\* returns the exhausted signal, and at no time more than `attempts` attempts
\* when attempts is at least 1.  Violated: for attempts = 0 the range 1..1 is
\* empty, and for attempts = 2^32 - 1 the sum wraps to the range 1..0 or the
\* build panics; in both cases None is returned, or the process dies, with no
\* attempt made.
C14_MinimumOneAttempt ==
    \A p \in Procs :
       LET l == proc[p].loop IN
       /\ l.ret = "None" => ULess(0, l.tries)
       /\ proc[p].fatal = "overflow" => ULess(0, l.tries)
       /\ l.attempts # 0 => ~ULess(l.attempts, l.tries)

\* The fatal exits of the database-existence step (main.rs:173-200, 360-365).
ExistenceFaults == {"query_database", "database_count", "create_database",
                    "database_exists"}

\* C15: on the administrative connection a count of 0 leads to one CREATE
\* DATABASE, issued where none was issued before in the run; a count of 1
\* leads to no statement; any other count, and a failure of the query or of
\* CREATE DATABASE, ends the run with status 1 with no connection to the
\* target database attempted; and that connection is attempted only after a
\* count of 1 or a count of 0 followed by a successful CREATE DATABASE.
C15_ExistenceDecision ==
    \A p \in Procs :
       LET me == proc[p] IN
       /\ me.counted = {0} =>
             \/ me.pc = "create_database" /\ "create_database" \notin me.wrote
             \/ me.pc # "create_database" /\ "create_database" \in me.wrote
       /\ me.counted = {1} =>
             me.pc # "create_database" /\ "create_database" \notin me.wrote
       /\ (me.counted \notin {{}, {0}, {1}} \/ me.fatal \in ExistenceFaults) =>
             /\ me.status = {ExitFatal}
             /\ me.pc = "exited"
             /\ me.loop.db # "named" /\ me.loop.tries = 0
       /\ me.counted = {} => "create_database" \notin me.wrote
       /\ me.loop.db = "named" =>
             /\ me.counted \in {{0}, {1}}
             /\ me.counted = {0} => hist.created >= 1

\* C15 witness: the first run counted 0 and created the database; the second
\* counted 1, issued no CREATE DATABASE and went on to the end.
C15_Witness ==
    \E p \in Procs :
       /\ proc[p].run = 2 /\ proc[p].pc = "done"
       /\ proc[p].counted = {1} /\ "create_database" \notin proc[p].wrote
       /\ hist.created = 1 /\ db.databases = 1

\* C16: pending versions are retried.  A version skipped with a warning was
\* skipped under force for an unreadable file or a failing body and has no
\* ledger row; it has none until apply is invoked on it again; a later run
\* whose loop has passed it did not find it installed and invoked apply on
\* it; and where that apply met no failure the version is recorded with the
\* whole of its body.
C16_PendingRetried ==
    \A p \in Procs :
       LET me == proc[p] IN
       /\ \A w \in me.warned :
             w[1] \in Forceable /\ me.force /\ db.versions[w[2]] = 0
       /\ \A v \in me.retry :
             /\ v \notin Range(me.applied) => db.versions[v] = 0
             /\ v \in Passed(me) =>
                   /\ ~IsInstalled(me.installed, v)
                   /\ v \in Range(me.applied)
             /\ (v \in Passed(me) /\ \A k \in Forceable : <<k, v>> \notin me.warned) =>
                   db.versions[v] = 1 /\ Visible(v) = Executed(v, BodyLen)

\* C16 witness: the second run has applied and recorded a version that the
\* first run skipped, and has come to its end.
C16_Witness ==
    \E p \in Procs : \E v \in proc[p].retry :
       /\ proc[p].run = 2 /\ proc[p].pc = "done"
       /\ v \in Range(proc[p].applied) /\ proc[p].warned = {}
       /\ db.versions[v] = 1

\* C17: the run as a whole is not transactional and the ledger only grows: no
\* step of any invocation, a failed or skipped apply and the start of a later
\* invocation included, removes a ledger row or a committed effect or a
\* bookkeeping object; what a version's transaction has committed stays in
\* every later state.
C17_LedgerOnlyGrows ==
    [][/\ \A v \in Versions : db.versions[v] <= db'.versions[v]
       /\ db.effects \subseteq db'.effects
       /\ db.objects \subseteq db'.objects]_vars

\* C17 witness: the body of a later version has failed fatally and a version
\* applied earlier in the same run is recorded with the whole of its body.
C17_Witness ==
    \E p \in Procs : \E v \in Passed(proc[p]) \cap Range(proc[p].applied) :
       /\ proc[p].fatal = "apply" /\ proc[p].pc = "exited"
       /\ db.versions[v] = 1 /\ Visible(v) = Executed(v, BodyLen)

\* C18: the baseline row for version 0 is seeded at schema creation and the
\* ledger is loaded after the bootstrap, so a run that has loaded the ledger
\* finds version 0 installed; apply is never invoked on a catalog entry with
\* version 0, and the body of 0000.sql is never executed or committed,
\* although the catalog holds the entry.
C18_BaselineShadowsZero ==
    /\ \A p \in Procs :
          LET me == proc[p] IN
          /\ me.idx >= 1 => IsInstalled(me.installed, 0)
          /\ 0 \notin Range(me.applied)
          /\ \A e \in me.tx.effects : e[1] # 0
    /\ Visible(0) = {}
    /\ hist.bodies[0] = 0

\* C18 witness: a run whose catalog holds 0000.sql has passed over it, applied
\* a later version and come to its end.
C18_Witness ==
    \E p \in Procs :
       /\ proc[p].pc = "done"
       /\ 0 \in CatalogVersions(proc[p].schemata) /\ 0 \in Passed(proc[p])
       /\ proc[p].applied # <<>> /\ db.versions[0] = 1

====
